---------------------------- MODULE Spec2Model ----------------------------
(***************************************************************************)
(* Model of script/remove_bg.py: a command-line script that reads an      *)
(* image file, hands its bytes to rembg.remove and writes the result.     *)
(*                                                                         *)
(* One run of the script is one behaviour.  The file system, the command  *)
(* line and the outcomes of the external steps (imports, file I/O, the    *)
(* rembg call) are the inputs; they are drawn from small sets.            *)
(***************************************************************************)
EXTENDS Integers, Sequences, FiniteSets

(* ------------------------------ bounds -------------------------------- *)

\* Longest file content / longest byte string returned by rembg.remove.
MaxLen == 2

\* Largest number of positional arguments on the command line.
MaxArgs == 3

(* ------------------------------ inputs -------------------------------- *)

Byte == {"X", "P"}

Paths == {"a.png", "b.png"}

Script == "remove_bg.py"

RECURSIVE SeqsUpTo(_, _)
SeqsUpTo(S, n) ==
    IF n = 0 THEN {<<>>}
    ELSE LET shorter == SeqsUpTo(S, n - 1)
             full    == {t \in shorter : Len(t) = n - 1}
         IN  shorter \cup {Append(s, x) : s \in full, x \in S}

\* Byte strings: file contents, and what rembg.remove may return.
Contents == SeqsUpTo(Byte, MaxLen)

\* What a path may name: nothing, a directory, or a regular file.
Missing == [kind |-> "missing", data |-> <<>>]
Dir     == [kind |-> "dir", data |-> <<>>]
File(d) == [kind |-> "file", data |-> d]

FileStates == {Missing, Dir} \cup {File(d) : d \in Contents}

\* Exceptions as the try statement tells them apart: ImportError, any other
\* subclass of Exception, and an exception that is not a subclass of
\* Exception (KeyboardInterrupt raised while the model runs).
NoExc == "none"

(* ------------------------------- state -------------------------------- *)

VARIABLES
    pc,           \* position in the script
    sys_argv,     \* sys.argv: the script name followed by the arguments
    fs,           \* the file system: path -> what it names
    fs0,          \* history: the file system when the run started
    handles,      \* the file handles currently open: "inp", "out"
    input_data,   \* the local input_data (NoData before it is assigned)
    output_data,  \* the local output_data (NoData before it is assigned)
    remove_arg,   \* history: the argument rembg.remove was called with
    exc,          \* the exception in flight, NoExc if none
    success,      \* what remove_background returned: "none", "True", "False"
    exitCode,     \* the exit status of the process, -1 while it runs
    stdout,       \* the lines printed, by kind
    reported,     \* the size printed by line 32, -1 if none
    log           \* history: the external effects, in order

vars == <<pc, sys_argv, fs, fs0, handles, input_data, output_data,
          remove_arg, exc, success, exitCode, stdout, reported, log>>

NoData == <<"unset">>

input_path == sys_argv[2]

output_path == sys_argv[3]

Init ==
    /\ pc = "main"
    /\ sys_argv \in {<<Script>> \o a : a \in SeqsUpTo(Paths, MaxArgs)}
    /\ fs \in [Paths -> FileStates]
    /\ fs0 = fs
    /\ handles = {}
    /\ input_data = NoData
    /\ output_data = NoData
    /\ remove_arg = NoData
    /\ exc = NoExc
    /\ success = "none"
    /\ exitCode = -1
    /\ stdout = <<>>
    /\ reported = -1
    /\ log = <<>>

(* ------------------------------ __main__ ------------------------------ *)

\* Variant: the check written as len(sys.argv) < 3.
BadArgCountAtLeast == Len(sys_argv) < 3

\* len(sys.argv) != 3
BadArgCount == Len(sys_argv) # 3

\* Lines 44-49: the argument count check.
MainArgs ==
    /\ pc = "main"
    /\ IF BadArgCount
       THEN /\ stdout' = Append(stdout, "usage")
            /\ exitCode' = 1
            /\ pc' = "done"
       ELSE /\ pc' = "exists"
            /\ UNCHANGED <<stdout, exitCode>>
    /\ UNCHANGED <<sys_argv, remove_arg,
                   fs, fs0, handles, input_data, output_data, exc,
                   success, reported, log>>

\* Variant: the existence check left out.
ExistsUnchecked(p) == TRUE

\* os.path.exists(p)
Exists(p) == fs[p].kind # "missing"

\* Lines 51-55: the existence check, then the call of remove_background.
CheckExists ==
    /\ pc = "exists"
    /\ IF ~Exists(input_path)
       THEN /\ stdout' = Append(stdout, "notfound")
            /\ exitCode' = 1
            /\ pc' = "done"
            /\ log' = Append(log, "exists")
       ELSE /\ pc' = "import_rembg"
            /\ log' = log \o <<"exists", "enter">>
            /\ UNCHANGED <<stdout, exitCode>>
    /\ UNCHANGED <<sys_argv, remove_arg,
                   fs, fs0, handles, input_data, output_data, exc,
                   success, reported>>

\* Line 56: sys.exit(0 if success else 1)
Exit ==
    /\ pc = "exit"
    /\ exitCode' = IF success = "True" THEN 0 ELSE 1
    /\ pc' = "done"
    /\ UNCHANGED <<sys_argv, remove_arg,
                   fs, fs0, handles, input_data, output_data, exc,
                   success, stdout, reported, log>>

(* -------------------------- remove_background ------------------------- *)

\* Line 13: from rembg import remove
ImportRembg ==
    /\ pc = "import_rembg"
    /\ \/ /\ pc' = "import_pil"
          /\ exc' = NoExc
       \/ /\ pc' = "except"
          /\ exc' = "ImportError"
    /\ log' = Append(log, "import_rembg")
    /\ UNCHANGED <<sys_argv, remove_arg,
                   fs, fs0, handles, input_data, output_data,
                   success, exitCode, stdout, reported>>

\* Lines 14-16: from PIL import Image, then the "Loading image" line.
ImportPIL ==
    /\ pc = "import_pil"
    /\ \/ /\ pc' = "open_in"
          /\ exc' = NoExc
          /\ stdout' = Append(stdout, "loading")
       \/ /\ pc' = "except"
          /\ exc' = "ImportError"
          /\ UNCHANGED stdout
    /\ log' = Append(log, "import_pil")
    /\ UNCHANGED <<sys_argv, remove_arg,
                   fs, fs0, handles, input_data, output_data,
                   success, exitCode, reported>>

\* Line 19: open(input_path, 'rb').  Only a regular file opens, and even
\* that may be refused (permissions).
OpenIn ==
    /\ pc = "open_in"
    /\ \/ /\ fs[input_path].kind = "file"
          /\ handles' = handles \cup {"inp"}
          /\ log' = Append(log, "open_in")
          /\ pc' = "read"
          /\ exc' = NoExc
       \/ /\ pc' = "except"
          /\ exc' = "Exception"
          /\ UNCHANGED <<handles, log>>
    /\ UNCHANGED <<sys_argv, remove_arg,
                   fs, fs0, input_data, output_data, success,
                   exitCode, stdout, reported>>

\* Line 20: input_data = inp.read(), inside the with block.
ReadIn ==
    /\ pc = "read"
    /\ \/ /\ input_data' = fs[input_path].data
          /\ log' = Append(log, "read")
          /\ exc' = NoExc
       \/ /\ exc' = "Exception"
          /\ UNCHANGED <<input_data, log>>
    /\ pc' = "close_in"
    /\ UNCHANGED <<sys_argv, remove_arg,
                   fs, fs0, handles, output_data, success,
                   exitCode, stdout, reported>>

\* Lines 19-22: leaving the with block closes the handle, whether the block
\* ended normally or by an exception; then the "Processing" line.
CloseIn ==
    /\ pc = "close_in"
    /\ handles' = handles \ {"inp"}
    /\ log' = Append(log, "close_in")
    /\ IF exc = NoExc
       THEN /\ pc' = "remove"
            /\ stdout' = Append(stdout, "processing")
       ELSE /\ pc' = "except"
            /\ UNCHANGED stdout
    /\ UNCHANGED <<sys_argv, remove_arg,
                   fs, fs0, input_data, output_data, exc, success,
                   exitCode, reported>>

\* Variant: the output file opened before the call, so that a failing call
\* leaves it truncated.
CallRemoveOpensFirst ==
    /\ pc = "remove"
    /\ \/ \E r \in Contents :
            /\ output_data' = r
            /\ log' = log \o <<"call", "ret">>
            /\ pc' = "open_out"
            /\ exc' = NoExc
            /\ UNCHANGED fs
       \/ \E e \in {"ImportError", "Exception", "KeyboardInterrupt"} :
            /\ exc' = e
            /\ fs' = [fs EXCEPT ![output_path] = File(<<>>)]
            /\ log' = log \o <<"open_out", "call">>
            /\ pc' = "except"
            /\ UNCHANGED output_data
    /\ remove_arg' = input_data
    /\ UNCHANGED <<sys_argv, fs0, handles, input_data, success, exitCode,
                   stdout, reported>>

\* Line 25: output_data = remove(input_data).  The external function
\* returns some bytes or raises.
CallRemove ==
    /\ pc = "remove"
    /\ \/ \E r \in Contents :
            /\ output_data' = r
            /\ log' = log \o <<"call", "ret">>
            /\ pc' = "open_out"
            /\ exc' = NoExc
       \/ \E e \in {"ImportError", "Exception", "KeyboardInterrupt"} :
            /\ exc' = e
            /\ log' = Append(log, "call")
            /\ pc' = "except"
            /\ UNCHANGED output_data
    /\ remove_arg' = input_data
    /\ UNCHANGED <<sys_argv, fs, fs0, handles, input_data, success, exitCode,
                   stdout, reported>>

\* Variant: the output opened in append mode ('ab'), which keeps the old
\* bytes.
TruncatedAppend(f) == File(f.data)

\* What open(p, 'wb') leaves at p: an empty regular file.
Truncated(f) == File(<<>>)

\* Variant: a stale output file removed before the open is attempted.
OpenOutUnlinkFirst ==
    /\ pc = "open_out"
    /\ \/ /\ fs[output_path].kind # "dir"
          /\ fs' = [fs EXCEPT ![output_path] = File(<<>>)]
          /\ handles' = handles \cup {"out"}
          /\ log' = Append(log, "open_out")
          /\ pc' = "write"
          /\ exc' = NoExc
       \/ /\ pc' = "except"
          /\ exc' = "Exception"
          /\ fs' = [fs EXCEPT ![output_path] =
                       IF @.kind = "file" THEN Missing ELSE @]
          /\ UNCHANGED <<handles, log>>
    /\ UNCHANGED <<sys_argv, remove_arg, fs0, input_data, output_data,
                   success, exitCode, stdout, reported>>

\* Line 28: open(output_path, 'wb').  A directory cannot be opened; a
\* file or a free name may be refused; otherwise the file is created or
\* truncated.
OpenOut ==
    /\ pc = "open_out"
    /\ \/ /\ fs[output_path].kind # "dir"
          /\ fs' = [fs EXCEPT ![output_path] = Truncated(@)]
          /\ handles' = handles \cup {"out"}
          /\ log' = Append(log, "open_out")
          /\ pc' = "write"
          /\ exc' = NoExc
       \/ /\ pc' = "except"
          /\ exc' = "Exception"
          /\ UNCHANGED <<fs, handles, log>>
    /\ UNCHANGED <<sys_argv, remove_arg,
                   fs0, input_data, output_data, success, exitCode,
                   stdout, reported>>

\* Variant: the input bytes written instead of the result.
WrittenInput(f, d) == File(f.data \o input_data)

\* The bytes at p once d has been written through a handle on it.
Written(f, d) == File(f.data \o d)

\* Line 29: out.write(output_data), inside the with block.  A failing
\* write leaves a proper prefix of the data in the file.
WriteOut ==
    /\ pc = "write"
    /\ \/ /\ fs' = [fs EXCEPT ![output_path] = Written(@, output_data)]
          /\ log' = Append(log, "write")
          /\ exc' = NoExc
       \/ \E k \in 0 .. (Len(output_data) - 1) :
            /\ fs' = [fs EXCEPT ![output_path] =
                         Written(@, SubSeq(output_data, 1, k))]
            /\ log' = Append(log, "write_failed")
            /\ exc' = "Exception"
    /\ pc' = "close_out"
    /\ UNCHANGED <<sys_argv, remove_arg,
                   fs0, handles, input_data, output_data, success,
                   exitCode, stdout, reported>>

\* Variant: open and close without a with block, so that a failing write
\* skips the close.
CloseOutNoFinally ==
    /\ pc = "close_out"
    /\ handles' = IF exc = NoExc THEN handles \ {"out"} ELSE handles
    /\ log' = Append(log, "close_out")
    /\ pc' = IF exc = NoExc THEN "report" ELSE "except"
    /\ UNCHANGED <<sys_argv, remove_arg, fs, fs0, input_data, output_data,
                   exc, success, exitCode, stdout, reported>>

\* Lines 28-29: leaving the with block closes the handle either way.
CloseOut ==
    /\ pc = "close_out"
    /\ handles' = handles \ {"out"}
    /\ log' = Append(log, "close_out")
    /\ pc' = IF exc = NoExc THEN "report" ELSE "except"
    /\ UNCHANGED <<sys_argv, remove_arg,
                   fs, fs0, input_data, output_data, exc, success,
                   exitCode, stdout, reported>>

\* os.path.getsize(p)
GetSize(p) == Len(fs[p].data)

\* Lines 31-33: the "Saved to" line, the size line, return True.  Reading
\* the size may raise; the first line is printed by then.
Report ==
    /\ pc = "report"
    /\ \/ /\ stdout' = stdout \o <<"saved", "size">>
          /\ reported' = GetSize(output_path)
          /\ success' = "True"
          /\ pc' = "exit"
          /\ exc' = NoExc
       \/ /\ stdout' = Append(stdout, "saved")
          /\ exc' = "Exception"
          /\ pc' = "except"
          /\ UNCHANGED <<reported, success>>
    /\ UNCHANGED <<sys_argv, remove_arg,
                   fs, fs0, handles, input_data, output_data,
                   exitCode, log>>

\* Variant: no ImportError clause; every Exception gets the generic line.
ExceptImportAsGeneric ==
    /\ pc = "except"
    /\ CASE exc \in {"ImportError", "Exception"} ->
              /\ stdout' = Append(stdout, "error")
              /\ success' = "False"
              /\ pc' = "exit"
              /\ UNCHANGED exitCode
         [] OTHER ->
              /\ exitCode' = 130
              /\ pc' = "done"
              /\ UNCHANGED <<stdout, success>>
    /\ UNCHANGED <<sys_argv, remove_arg, fs, fs0, handles, input_data,
                   output_data, exc, reported, log>>

\* Variant: only the ImportError clause; any other exception leaves the
\* function and ends the process with a traceback.
ExceptNoGeneric ==
    /\ pc = "except"
    /\ CASE exc = "ImportError" ->
              /\ stdout' = stdout \o <<"import_error", "hint">>
              /\ success' = "False"
              /\ pc' = "exit"
              /\ UNCHANGED exitCode
         [] exc = "Exception" ->
              /\ exitCode' = 1
              /\ pc' = "done"
              /\ UNCHANGED <<stdout, success>>
         [] OTHER ->
              /\ exitCode' = 130
              /\ pc' = "done"
              /\ UNCHANGED <<stdout, success>>
    /\ UNCHANGED <<sys_argv, remove_arg, fs, fs0, handles, input_data,
                   output_data, exc, reported, log>>

\* Variant: a failed call of the external function is tried once more.
ExceptRetry ==
    /\ pc = "except"
    /\ CASE exc = "ImportError" ->
              /\ stdout' = stdout \o <<"import_error", "hint">>
              /\ success' = "False"
              /\ pc' = "exit"
              /\ UNCHANGED exitCode
         [] /\ exc = "Exception"
            /\ log[Len(log)] = "call"
            /\ Cardinality({i \in DOMAIN log : log[i] = "call"}) < 2 ->
              /\ pc' = "remove"
              /\ UNCHANGED <<stdout, success, exitCode>>
         [] /\ exc = "Exception"
            /\ ~ /\ log[Len(log)] = "call"
                 /\ Cardinality({i \in DOMAIN log : log[i] = "call"}) < 2 ->
              /\ stdout' = Append(stdout, "error")
              /\ success' = "False"
              /\ pc' = "exit"
              /\ UNCHANGED exitCode
         [] OTHER ->
              /\ exitCode' = 130
              /\ pc' = "done"
              /\ UNCHANGED <<stdout, success>>
    /\ UNCHANGED <<sys_argv, remove_arg, fs, fs0, handles, input_data,
                   output_data, exc, reported, log>>

\* Lines 35-41: the except clauses.  ImportError gets the installation
\* hint, any other Exception the generic line; both return False.  What
\* is not an Exception leaves the function and ends the process: the
\* interpreter dies of the interrupt, which a shell shows as status 130.
Except ==
    /\ pc = "except"
    /\ CASE exc = "ImportError" ->
              /\ stdout' = stdout \o <<"import_error", "hint">>
              /\ success' = "False"
              /\ pc' = "exit"
              /\ UNCHANGED exitCode
         [] exc = "Exception" ->
              /\ stdout' = Append(stdout, "error")
              /\ success' = "False"
              /\ pc' = "exit"
              /\ UNCHANGED exitCode
         [] OTHER ->
              /\ exitCode' = 130
              /\ pc' = "done"
              /\ UNCHANGED <<stdout, success>>
    /\ UNCHANGED <<sys_argv, remove_arg,
                   fs, fs0, handles, input_data, output_data, exc,
                   reported, log>>

Next ==
    \/ MainArgs
    \/ CheckExists
    \/ ImportRembg
    \/ ImportPIL
    \/ OpenIn
    \/ ReadIn
    \/ CloseIn
    \/ CallRemove
    \/ OpenOut
    \/ WriteOut
    \/ CloseOut
    \/ Report
    \/ Except
    \/ Exit

Spec == Init /\ [][Next]_vars

(* --------------------------- reading the log -------------------------- *)

Has(e) == \E i \in DOMAIN log : log[i] = e

Count(e) == Cardinality({i \in DOMAIN log : log[i] = e})

\* Every e2 in the log has an e1 somewhere before it.
Precedes(e1, e2) ==
    \A j \in DOMAIN log :
        log[j] = e2 => \E i \in 1 .. (j - 1) : log[i] = e1

Printed(m) == \E i \in DOMAIN stdout : stdout[i] = m

TwoArgs == Len(sys_argv) = 3

Finished == pc = "done"

\* remove_background has returned, or the process has ended.
Returned == pc \in {"exit", "done"}

(* ------------------------------- claims ------------------------------- *)

\* C1: a run with exactly two arguments whose input path does not exist
\* prints the "not found" line and exits with code 1; remove_background is
\* never entered, the external function is never called, and neither the
\* input nor the output path is ever opened or created.
C1_MissingInput ==
    (TwoArgs /\ fs0[input_path].kind = "missing") =>
        /\ pc \in {"main", "exists", "done"}
        /\ ~Has("enter") /\ ~Has("call")
        /\ ~Has("open_in") /\ ~Has("open_out")
        /\ handles = {}
        /\ fs = fs0
        /\ success = "none"
        /\ Finished => (exitCode = 1 /\ stdout = <<"notfound">>)

C1_Witness ==
    /\ TwoArgs
    /\ fs0[input_path].kind = "missing"
    /\ Finished
    /\ log = <<"exists">>

\* C4: a run with 0, 1 or more than 2 arguments prints the usage line and
\* exits with code 1 before anything else: no existence check, no file
\* opened, no call of remove_background or of the external function.
C4_Usage ==
    ~TwoArgs =>
        /\ pc \in {"main", "done"}
        /\ log = <<>>
        /\ handles = {}
        /\ fs = fs0
        /\ success = "none"
        /\ Finished => (exitCode = 1 /\ stdout = <<"usage">>)

C4_Witness ==
    /\ Len(sys_argv) > 3
    /\ Finished
    /\ stdout = <<"usage">>

\* The run in which one of the two imports raised ImportError.
ImportFailed == exc = "ImportError" /\ ~Has("call")

\* C3: when rembg or PIL cannot be imported, the installation hint is
\* printed, remove_background returns False, the program exits with code
\* 1, and neither the input is read nor the output opened or created.
C3_ImportError ==
    ImportFailed =>
        /\ ~Has("open_in") /\ ~Has("read") /\ ~Has("open_out")
        /\ input_data = NoData
        /\ handles = {}
        /\ fs = fs0
        /\ Returned =>
              /\ success = "False"
              /\ stdout = <<"import_error", "hint">>
        /\ Finished => exitCode = 1

C3_Witness ==
    /\ ImportFailed
    /\ Has("import_pil")
    /\ Finished
    /\ fs0[output_path].kind = "missing"

\* C6: the output path is opened for writing (created, truncated or
\* written) only after the external call has returned normally in this
\* run; when the import, the read or the call fails it is never touched.
C6_OutputOnlyAfterReturn ==
    /\ (Has("open_out") \/ fs # fs0 \/ "out" \in handles) =>
          /\ Has("ret")
          /\ output_data # NoData
    /\ Precedes("ret", "open_out")
    /\ ~Has("ret") => (fs = fs0 /\ ~Has("open_out"))

C6_Witness ==
    /\ Has("open_out")
    /\ fs # fs0
    /\ Finished

\* C8: at most one file handle is open at any time; the input handle is
\* closed before the external function is called; the output handle is
\* opened only after the call returns; and once remove_background has
\* returned or been left, also after a failing read or write, no handle
\* is open.
C8_Handles ==
    /\ Cardinality(handles) <= 1
    /\ pc = "remove" => handles = {}
    /\ Has("call") => (Has("close_in") /\ "inp" \notin handles)
    /\ Precedes("close_in", "call")
    /\ "out" \in handles => Has("ret")
    /\ pc = "except" => handles = {}
    /\ Returned => handles = {}
    /\ Count("open_in") = Count("close_in") + (IF "inp" \in handles THEN 1 ELSE 0)
    /\ Count("open_out") = Count("close_out") + (IF "out" \in handles THEN 1 ELSE 0)

C8_Witness ==
    /\ success = "False"
    /\ Has("write_failed")
    /\ Has("close_out")
    /\ handles = {}

\* C9: the steps happen in the order read, process, write, each at most
\* once and never again after a failure; the input is read completely
\* before the external function is called, and the output is opened only
\* after it returns.  When both paths name the same file, the function
\* still gets the file's original bytes and the file is overwritten only
\* afterwards.
C9_Order ==
    /\ Count("open_in") <= 1 /\ Count("read") <= 1
    /\ Count("call") <= 1 /\ Count("ret") <= 1
    /\ Count("open_out") <= 1
    /\ Count("write") + Count("write_failed") <= 1
    /\ Precedes("read", "call")
    /\ Precedes("ret", "open_out")
    /\ Precedes("open_out", "write") /\ Precedes("open_out", "write_failed")
    /\ Has("call") =>
          /\ remove_arg = fs0[input_path].data
          /\ remove_arg = input_data
    /\ (pc = "remove" \/ (Has("call") /\ ~Has("open_out"))) => fs = fs0

C9_Witness ==
    /\ TwoArgs
    /\ input_path = output_path
    /\ Finished
    /\ exitCode = 0
    /\ fs # fs0
    /\ remove_arg = fs0[input_path].data

\* C5: on a successful run the output file holds exactly the bytes the
\* external function returned, the function was given exactly the bytes
\* of the input file, whatever the output path held before is replaced,
\* and no other path is changed.
C5_Verbatim ==
    success = "True" =>
        /\ fs[output_path] = File(output_data)
        /\ remove_arg = fs0[input_path].data
        /\ \A p \in Paths : p # output_path => fs[p] = fs0[p]

C5_Witness ==
    /\ success = "True"
    /\ fs0[output_path].kind = "file"
    /\ Len(fs0[output_path].data) > Len(output_data)
    /\ output_data = <<"X">>

\* C2 as stated: exit code 0 implies that the output file exists and is
\* not empty, whatever bytes the external function returned.
C2_Original ==
    exitCode = 0 =>
        /\ fs[output_path].kind = "file"
        /\ Len(fs[output_path].data) > 0

\* C2, amended: when no step raises (imports, read, external call, write
\* and size report), the program exits with code 0; exit code 0 implies
\* that the output file exists, has as many bytes as the external
\* function returned, and that this size was printed; the file is
\* non-empty exactly when the returned bytes are.
C2_Amended ==
    /\ (Finished /\ Has("enter") /\ exc = NoExc) => exitCode = 0
    /\ exitCode = 0 =>
          /\ Has("write")
          /\ fs[output_path].kind = "file"
          /\ GetSize(output_path) = Len(output_data)
          /\ reported = Len(output_data)
          /\ (GetSize(output_path) > 0) <=> (output_data # <<>>)
          /\ stdout = <<"loading", "processing", "saved", "size">>

C2_Witness ==
    /\ exitCode = 0
    /\ output_data = <<>>
    /\ fs[output_path] = File(<<>>)
    /\ fs0[output_path] # File(<<>>)

C10_Original ==
    /\ success = "False" => fs[output_path] = fs0[output_path]
    /\ (Finished /\ Has("write")) => exitCode = 0

\* C10, amended: when remove_background returns False because a step
\* before the output was opened failed (import, read, external call, or
\* the open of the output itself), every file is exactly as it was before
\* the call.  Once the output is opened it is not restored: a failing
\* write leaves a proper prefix of the returned bytes in it, and a failing
\* size report leaves the complete output in place although the program
\* exits with code 1.  A run that exits 0 leaves the complete output.
C10_Amended ==
    /\ (success = "False" /\ ~Has("open_out")) => fs = fs0
    /\ (success = "False" /\ Has("write_failed")) =>
          /\ fs[output_path].kind = "file"
          /\ \E k \in 0 .. (Len(output_data) - 1) :
                fs[output_path].data = SubSeq(output_data, 1, k)
    /\ (success = "False" /\ Has("write")) =>
          /\ fs[output_path] = File(output_data)
          /\ Finished => exitCode = 1
    /\ exitCode = 0 => (Has("write") /\ fs[output_path] = File(output_data))

C10_Witness ==
    /\ success = "False"
    /\ Has("write_failed")
    /\ fs[output_path] # fs0[output_path]
    /\ fs0[output_path].kind = "file"
    /\ Finished

==========================================================================
